---- MODULE Spec2Model ----
(***************************************************************************)
(* A model of shamir.js: (t, n) threshold secret sharing over GF(2^8).     *)
(*                                                                         *)
(* JavaScript strings are modelled as sequences of one-character strings,  *)
(* so that formatting and parsing (toString(2), toString(16), parseInt,    *)
(* slice, the share regex) are computed digit by digit as the code does.   *)
(* NaN and undefined are the number NaN below.                             *)
(***************************************************************************)
EXTENDS Integers, Sequences, FiniteSets, TLC

(***************************************************************************)
(* Program constants.                                                      *)
(***************************************************************************)
fieldBits == 8

maxShares == 255

\* NaN, and undefined where only its being falsy or non-numeric matters.
NaN == -1

(***************************************************************************)
(* JavaScript primitives used by the code.                                 *)
(***************************************************************************)
\* An array, given by its elements 1..n: the same sequence, with every element
\* evaluated once.
Array(elements) == elements \o <<>>

\* Bit k of a non-negative integer.
Bit(a, k) == (a \div (2 ^ k)) % 2

\* a ^ b, bit by bit, on integers in [0, 511] (the widest value the code ever
\* xors is the 9-bit x of the table loop).
XorBits(a, b) ==
      ((Bit(a, 0) + Bit(b, 0)) % 2)
    + 2 * ((Bit(a, 1) + Bit(b, 1)) % 2)
    + 4 * ((Bit(a, 2) + Bit(b, 2)) % 2)
    + 8 * ((Bit(a, 3) + Bit(b, 3)) % 2)
    + 16 * ((Bit(a, 4) + Bit(b, 4)) % 2)
    + 32 * ((Bit(a, 5) + Bit(b, 5)) % 2)
    + 64 * ((Bit(a, 6) + Bit(b, 6)) % 2)
    + 128 * ((Bit(a, 7) + Bit(b, 7)) % 2)
    + 256 * ((Bit(a, 8) + Bit(b, 8)) % 2)

\* The xor of every two bytes, computed once.
XorOfBytes == Array([a \in 1..256 |-> Array([b \in 1..256 |-> XorBits(a - 1, b - 1)])])

\* ToInt32 of an operand of ^: undefined and NaN count as 0.
ToInt32(v) == IF v = NaN THEN 0 ELSE v

\* a ^ b
BitXor(a, b) ==
    IF a \in 0..255 /\ b \in 0..255 THEN XorOfBytes[a + 1][b + 1]
    ELSE XorBits(ToInt32(a), ToInt32(b))

LowerDigits ==
    <<"0", "1", "2", "3", "4", "5", "6", "7", "8", "9", "a", "b", "c", "d", "e", "f">>

UpperDigits ==
    <<"0", "1", "2", "3", "4", "5", "6", "7", "8", "9", "A", "B", "C", "D", "E", "F">>

\* The characters that are a digit of some radix up to 16, with their value.
DigitChars ==
    {"0", "1", "2", "3", "4", "5", "6", "7", "8", "9", "a", "b", "c", "d", "e", "f",
     "A", "B", "C", "D", "E", "F"}

DigitValue ==
    ("0" :> 0) @@ ("1" :> 1) @@ ("2" :> 2) @@ ("3" :> 3) @@ ("4" :> 4) @@ ("5" :> 5)
    @@ ("6" :> 6) @@ ("7" :> 7) @@ ("8" :> 8) @@ ("9" :> 9)
    @@ ("a" :> 10) @@ ("b" :> 11) @@ ("c" :> 12) @@ ("d" :> 13) @@ ("e" :> 14)
    @@ ("f" :> 15)
    @@ ("A" :> 10) @@ ("B" :> 11) @@ ("C" :> 12) @@ ("D" :> 13) @@ ("E" :> 14)
    @@ ("F" :> 15)

\* parseInt(c, radix) of a single character: NaN when c is no digit of the radix.
parseIntChar(c, radix) ==
    IF c \in DigitChars /\ DigitValue[c] < radix THEN DigitValue[c] ELSE NaN

\* Number.prototype.toString(radix) of a non-negative integer: lower case,
\* no leading zeros.
RECURSIVE toString(_, _)
toString(num, radix) ==
    IF num < radix THEN <<LowerDigits[num + 1]>>
    ELSE toString(num \div radix, radix) \o <<LowerDigits[(num % radix) + 1]>>

\* parseInt(str, radix): the longest prefix of digits; NaN when there is none.
RECURSIVE parseIntFrom(_, _, _, _)
parseIntFrom(str, radix, i, acc) ==
    IF i > Len(str) THEN acc
    ELSE LET digit == parseIntChar(str[i], radix)
         IN  IF digit = NaN THEN acc
             ELSE parseIntFrom(str, radix, i + 1, acc * radix + digit)

parseInt(str, radix) ==
    IF str = <<>> \/ parseIntChar(str[1], radix) = NaN THEN NaN
    ELSE parseIntFrom(str, radix, 1, 0)

\* String.prototype.slice(begin, end): negative indices count from the end.
sliceIndex(len, k) == IF k < 0 THEN (IF len + k < 0 THEN 0 ELSE len + k)
                      ELSE (IF k > len THEN len ELSE k)

slice(str, begin, end) ==
    SubSeq(str, sliceIndex(Len(str), begin) + 1, sliceIndex(Len(str), end))

sliceFrom(str, begin) == slice(str, begin, Len(str))

\* String.prototype.indexOf(c): -1 when c does not occur.
indexOf(str, c) ==
    IF \E k \in 1..Len(str) : str[k] = c
    THEN (CHOOSE k \in 1..Len(str) : str[k] = c /\ \A j \in 1..(k - 1) : str[j] # c) - 1
    ELSE -1

(***************************************************************************)
(* The logarithm and exponent tables (shamir.js 8-21).                     *)
(***************************************************************************)
\* A faulty NextPower that reduces by 0x11b, the polynomial of AES.
NextPowerAes(x) ==
    IF Bit(2 * x, 8) # 0 THEN BitXor(2 * x, 283) ELSE 2 * x

\* One turn of the loop on x: x << 1, reduced by 0x11d when bit 8 is set.
NextPower(x) ==
    IF Bit(2 * x, 8) # 0 THEN BitXor(2 * x, 285) ELSE 2 * x

\* The body of the loop for one i, on the state (x, exponents, logarithms).
TableStep(i, st) ==
    [x |-> NextPower(st.x),
     exps |-> [st.exps EXCEPT ![i] = st.x],
     logs |-> [st.logs EXCEPT ![st.x] = i]]

\* The turns lo..hi of the loop, in order. (The range is split in halves, and
\* the first half is evaluated before the second is entered, only to keep the
\* evaluation shallow: first.x is never NaN.)
RECURSIVE TableLoop(_, _, _)
TableLoop(lo, hi, st) ==
    IF lo = hi THEN TableStep(lo, st)
    ELSE LET first == TableLoop(lo, (lo + hi) \div 2, st)
         IN  IF first.x = NaN THEN first
             ELSE TableLoop(((lo + hi) \div 2) + 1, hi, first)

\* The loop runs i = 0..255: entry 255 of the exponents is written, and the
\* logarithm of 1 is written twice (0, then 255). The logarithm of 0 is never
\* written.
calculatedTables ==
    TableLoop(0, 255, [x |-> 1,
                       exps |-> [i \in 0..255 |-> NaN],
                       logs |-> [v \in 0..255 |-> NaN]])

calculatedExponents == calculatedTables.exps

calculatedLogarithms == calculatedTables.logs

\* Simple string of zeroes used for padding: new Array(1024).join('0').
zeroPadding == Array([k \in 1..1023 |-> "0"])

(***************************************************************************)
(* helpers.strings                                                         *)
(***************************************************************************)
PadError == <<"Padding must be multiples of no larger than 1024 bits.">>

padLeft(stringToPad, multipleOfBits) ==
    IF multipleOfBits = 0 \/ multipleOfBits = 1 THEN stringToPad
    ELSE IF multipleOfBits > 1024 THEN PadError
    ELSE LET bitsToPad == IF stringToPad # <<>> THEN Len(stringToPad) % multipleOfBits
                          ELSE 0
         IN  IF bitsToPad # 0
             THEN sliceFrom(zeroPadding \o stringToPad,
                            -(multipleOfBits - bitsToPad + Len(stringToPad)))
             ELSE stringToPad

\* 'Invalid hex character.' is thrown on a character parseInt rejects.
InvalidHex == <<"Invalid hex character.">>

\* The strings built by prepending (s = piece + s) or appending in a loop are
\* the concatenation of the pieces: parts[lo] \o ... \o parts[hi].
RECURSIVE join(_, _, _)
join(parts, lo, hi) ==
    IF lo > hi THEN <<>>
    ELSE IF lo = hi THEN parts[lo]
    ELSE join(parts, lo, (lo + hi) \div 2) \o join(parts, ((lo + hi) \div 2) + 1, hi)

\* The loop runs from the last character to the first, prepending the four
\* bits of each; a character parseInt rejects throws.
hexadecimalToBinary(hexString) ==
    IF \E i \in 1..Len(hexString) : parseIntChar(hexString[i], 16) = NaN THEN InvalidHex
    ELSE join([i \in 1..Len(hexString) |->
                  padLeft(toString(parseIntChar(hexString[i], 16), 2), 4)],
              1, Len(hexString))

\* The loop takes slice(i - 4, i) for i = length, length - 4, ... while i >= 4,
\* prepending the digit of each.
binaryToHexadecimal(binaryString) ==
    LET padded == padLeft(binaryString, 4)
        groups == Len(padded) \div 4
        end(g) == Len(padded) - 4 * (groups - g)
    IN  join([g \in 1..groups |->
                 toString(parseInt(slice(padded, end(g) - 4, end(g)), 2), 16)],
             1, groups)

\* parts[0] is the last 8 bits; the loop runs while i > fieldBits and the
\* remaining slice(0, i) is pushed last. padLength 0 stands for a call without
\* padLength (if (padLength) is false for both).
splitNumStringToIntArray(stringToSplit, padLength) ==
    LET str == IF padLength # 0 THEN padLeft(stringToSplit, padLength) ELSE stringToSplit
        len == Len(str)
        full == IF len > fieldBits THEN (len - 1) \div fieldBits ELSE 0
    IN  Array([p \in 1..(full + 1) |->
                  IF p <= full
                  THEN parseInt(slice(str, len - fieldBits * p, len - fieldBits * (p - 1)), 2)
                  ELSE parseInt(slice(str, 0, len - fieldBits * full), 2)])

(***************************************************************************)
(* helpers.shareOperations.extractShareComponents                          *)
(***************************************************************************)
\* The character class [a-fA-F\d] of the share regex.
HexClass == DigitChars

\* /^([a-fA-F\d]{2})([a-fA-F\d]+)$/.exec(share) is not null.
shareRegexMatches(share) ==
    Len(share) >= 3 /\ \A k \in 1..Len(share) : share[k] \in HexClass

\* A faulty extractShareComponents that accepts the id 0.
extractShareComponentsFromZero(share) ==
    LET matched == shareRegexMatches(share)
        id == IF matched THEN parseInt(SubSeq(share, 1, 2), 16) ELSE NaN
        data == IF matched THEN SubSeq(share, 3, Len(share)) ELSE <<>>
    IN  IF id = NaN \/ id < 0 \/ id > maxShares
        THEN [error |-> "InvalidShareId", id |-> NaN, data |-> <<>>]
        ELSE [error |-> "", id |-> id, data |-> data]

extractShareComponents(share) ==
    LET matched == shareRegexMatches(share)
        id == IF matched THEN parseInt(SubSeq(share, 1, 2), 16) ELSE NaN
        data == IF matched THEN SubSeq(share, 3, Len(share)) ELSE <<>>
    IN  IF id = NaN \/ id < 1 \/ id > maxShares
        THEN [error |-> "InvalidShareId", id |-> NaN, data |-> <<>>]
        ELSE IF matched /\ data # <<>>
        THEN [error |-> "", id |-> id, data |-> data]
        ELSE [error |-> "InvalidShareData", id |-> NaN, data |-> <<>>]

(***************************************************************************)
(* helpers.crypto                                                          *)
(***************************************************************************)
\* calculatedExponents[(logX + calculatedLogarithms[fx]) % maxShares]: the
\* product of x and fx. A logarithm that is undefined (that of 0) makes the
\* index NaN and the entry undefined.
\* A faulty tableProduct that does not reduce the sum of the logarithms
\* modulo 255: a sum of 255 or more indexes past the end of the exponents.
tableProductUnreduced(x, fx) ==
    IF calculatedLogarithms[x] = NaN \/ calculatedLogarithms[fx] = NaN THEN NaN
    ELSE IF calculatedLogarithms[x] + calculatedLogarithms[fx] >= maxShares THEN NaN
    ELSE calculatedExponents[calculatedLogarithms[x] + calculatedLogarithms[fx]]

tableProduct(x, fx) ==
    IF calculatedLogarithms[x] = NaN \/ calculatedLogarithms[fx] = NaN THEN NaN
    ELSE calculatedExponents[(calculatedLogarithms[x] + calculatedLogarithms[fx])
                             % maxShares]

\* The body of the loop of calculateFofX for one coefficient.
calculateFofXStep(x, coefficient, fx) ==
    IF fx # 0 THEN BitXor(tableProduct(x, fx), coefficient) ELSE coefficient

\* The turns of the loop for the coefficients hi down to lo, in that order.
\* (The range is split in halves, and the test first = first only makes the
\* first half be evaluated before the second is entered.)
RECURSIVE calculateFofXLoop(_, _, _, _, _)
calculateFofXLoop(x, coefficients, hi, lo, fx) ==
    IF hi = lo THEN calculateFofXStep(x, coefficients[hi], fx)
    ELSE LET first == calculateFofXLoop(x, coefficients, hi, ((hi + lo) \div 2) + 1, fx)
         IN  IF first = first
             THEN calculateFofXLoop(x, coefficients, (hi + lo) \div 2, lo, first)
             ELSE first

\* coefficients[1] is the constant term; the loop starts from the highest.
calculateFofX(x, coefficients) ==
    IF coefficients = <<>> THEN 0
    ELSE calculateFofXLoop(x, coefficients, Len(coefficients), 1, 0)

\* The inner loop of lagrange over j for one i (a NaN product stays NaN).
RECURSIVE lagrangeProduct(_, _, _, _)
lagrangeProduct(x, i, j, product) ==
    IF j > Len(x) \/ product = NaN THEN product
    ELSE lagrangeProduct(x, i, j + 1,
             IF i # j
             THEN (product + calculatedLogarithms[BitXor(0, x[j])]
                   - calculatedLogarithms[BitXor(x[i], x[j])] + maxShares) % maxShares
             ELSE product)

\* An entry of y that is 0 or missing (undefined) is skipped.
RECURSIVE lagrangeSum(_, _, _, _)
lagrangeSum(x, y, i, sum) ==
    IF i > Len(x) THEN sum
    ELSE lagrangeSum(x, y, i + 1,
             IF i <= Len(y) /\ y[i] # 0 /\ y[i] # NaN
             THEN BitXor(sum, calculatedExponents[
                                  lagrangeProduct(x, i, 1, calculatedLogarithms[y[i]])])
             ELSE sum)

\* A faulty lagrange that interpolates through the first two points only.
lagrangeFirstTwo(x, y) ==
    lagrangeSum(SubSeq(x, 1, IF Len(x) < 2 THEN Len(x) ELSE 2), y, 1, 0)

lagrange(x, y) == lagrangeSum(x, y, 1, 0)

\* crypto.randomBytes(1).toString('hex'): two hex digits per byte.
byteToHex(byte) == <<LowerDigits[(byte \div 16) + 1], LowerDigits[(byte % 16) + 1]>>

\* The inner while loop of getRandomBinaryString: four bits per hex digit of
\* byteString, while i < len or the string is shorter than bits.
RECURSIVE randomDigits(_, _, _, _, _)
randomDigits(byteString, i, len, string, bits) ==
    IF i < len \/ Len(string) < bits
    THEN randomDigits(byteString, i + 1, len,
                      string \o padLeft(toString(parseIntChar(byteString[i + 1], 16), 2), 4),
                      bits)
    ELSE string

\* The first part of a turn of the outer while loop, on the byte the random
\* source returned: the digits of the byte, and the last `bits` bits of them.
randomString(byte, bits) ==
    LET byteString == byteToHex(byte)
    IN  sliceFrom(randomDigits(byteString, 0, Len(byteString) - 1, <<>>, bits), -bits)

\* A faulty eraseZeros that keeps a string that is all 0.
eraseZerosNever(string) == string

\* The end of the turn: the string is erased ('') when it is all 0.
eraseZeros(string) ==
    IF \A k \in 1..Len(string) : string[k] = "0" THEN <<>> ELSE string

\* One turn of the outer while loop.
randomTurn(byte, bits) == eraseZeros(randomString(byte, bits))

\* getRandomBinaryString(bits), given the bytes the random source returns on
\* the successive turns of the outer loop, from turn k on: the loop goes on
\* while the string is ''. A source that is all 0 gives no result (<<>> here:
\* the code is still looping).
RECURSIVE getRandomBinaryStringFrom(_, _, _)
getRandomBinaryStringFrom(bits, source, k) ==
    IF k > Len(source) THEN <<>>
    ELSE LET string == randomTurn(source[k], bits)
         IN  IF string = <<>> THEN getRandomBinaryStringFrom(bits, source, k + 1)
             ELSE string

getRandomBinaryString(bits, source) == getRandomBinaryStringFrom(bits, source, 1)

(***************************************************************************)
(* helpers.shareOperations.calculateRandomizedShares                       *)
(***************************************************************************)
\* The coefficients of the polynomial (lines 168-173): the secret, then one
\* draw of fieldBits bits for each higher power. sources[i] is what the random
\* source returns while coefficient i is drawn.
drawCoefficients(secret, requiredShares, sources) ==
    Array([i \in 1..requiredShares |->
              IF i = 1 THEN secret
              ELSE parseInt(getRandomBinaryString(fieldBits, sources[i - 1]), 2)])

calculateRandomizedShares(secret, totalShares, requiredShares, sources) ==
    LET coefficients == drawCoefficients(secret, requiredShares, sources)
    IN  Array([i \in 1..totalShares |-> [x |-> i, y |-> calculateFofX(i, coefficients)]])

(***************************************************************************)
(* Shamir.deriveSecret                                                     *)
(***************************************************************************)
\* y[j][x.length - 1] = splitShare[j]: column j gets the share's chunk j at
\* position k; positions never written stay undefined.
setCell(column, k, value) ==
    Array([p \in 1..k |-> IF p = k THEN value
                          ELSE IF p <= Len(column) THEN column[p] ELSE NaN])

\* A faulty addShare where a share whose id is already in x replaces the data
\* of the earlier one (the last occurrence wins).
addShareLastWins(acc, share) ==
    LET seen == {k \in 1..Len(acc.x) : acc.x[k] = share.id}
        at == IF seen = {} THEN Len(acc.x) + 1 ELSE CHOOSE k \in seen : TRUE
        splitShare == splitNumStringToIntArray(hexadecimalToBinary(share.data), 0)
        rows == IF Len(splitShare) > Len(acc.y) THEN Len(splitShare) ELSE Len(acc.y)
    IN  [x |-> IF seen = {} THEN Append(acc.x, share.id) ELSE acc.x,
         y |-> Array([j \in 1..rows |->
                         LET column == IF j <= Len(acc.y) THEN acc.y[j] ELSE <<>>
                         IN  IF j > Len(splitShare) THEN column
                             ELSE Array([p \in 1..(IF at > Len(column) THEN at
                                                   ELSE Len(column)) |->
                                            IF p = at THEN splitShare[j]
                                            ELSE IF p <= Len(column) THEN column[p]
                                            ELSE NaN])])]

\* The body of the loop over the shares for one parsed share (lines 404-411):
\* a share whose id is already in x is skipped.
addShare(acc, share) ==
    IF \E k \in 1..Len(acc.x) : acc.x[k] = share.id THEN acc
    ELSE LET x == Append(acc.x, share.id)
             splitShare == splitNumStringToIntArray(hexadecimalToBinary(share.data), 0)
             rows == IF Len(splitShare) > Len(acc.y) THEN Len(splitShare) ELSE Len(acc.y)
         IN  [x |-> x,
              y |-> Array([j \in 1..rows |->
                              IF j <= Len(splitShare)
                              THEN setCell(IF j <= Len(acc.y) THEN acc.y[j] ELSE <<>>,
                                           Len(x), splitShare[j])
                              ELSE acc.y[j]])]

\* The loop over the shares: the first share that does not parse throws.
RECURSIVE collectShares(_, _, _)
collectShares(shares, i, acc) ==
    IF i > Len(shares) THEN [error |-> "", x |-> acc.x, y |-> acc.y]
    ELSE LET share == extractShareComponents(shares[i])
         IN  IF share.error # "" THEN [error |-> share.error, x |-> <<>>, y |-> <<>>]
             ELSE collectShares(shares, i + 1, addShare(acc, share))

\* A faulty combineColumns that appends each byte instead of prepending it.
combineColumnsAppending(x, y) ==
    join([k \in 1..Len(y) |-> padLeft(toString(lagrange(x, y[k]), 2), fieldBits)],
         1, Len(y))

\* The loop over the columns: each byte, padded to 8 bits, is prepended to the
\* result, so the last column comes first.
combineColumns(x, y) ==
    join([k \in 1..Len(y) |->
             padLeft(toString(lagrange(x, y[Len(y) + 1 - k]), 2), fieldBits)],
         1, Len(y))

deriveSecret(shares) ==
    LET collected == collectShares(shares, 1, [x |-> <<>>, y |-> <<>>])
        result == combineColumns(collected.x, collected.y)
    IN  IF collected.error # "" THEN [error |-> collected.error, value |-> <<>>]
        ELSE [error |-> "",
              value |-> binaryToHexadecimal(sliceFrom(result, indexOf(result, "1") + 1))]

(***************************************************************************)
(* JavaScript values, as far as the argument checks of generateShares tell *)
(* them apart. A fraction is num + 1/2.                                    *)
(***************************************************************************)
JsInteger(n) == [kind |-> "integer", num |-> n, str |-> <<>>]

JsFraction(n) == [kind |-> "fraction", num |-> n, str |-> <<>>]

JsNaN == [kind |-> "NaN", num |-> 0, str |-> <<>>]

JsString(s) == [kind |-> "string", num |-> 0, str |-> s]

JsUndefined == [kind |-> "undefined", num |-> 0, str |-> <<>>]

JsNull == [kind |-> "null", num |-> 0, str |-> <<>>]

typeof(v) ==
    CASE v.kind \in {"integer", "fraction", "NaN"} -> "number"
      [] v.kind = "string" -> "string"
      [] v.kind = "undefined" -> "undefined"
      [] v.kind = "null" -> "object"

\* v || d picks d when v is falsy: undefined, null, NaN, 0 and ''.
truthy(v) ==
    \/ v.kind = "integer" /\ v.num # 0
    \/ v.kind = "fraction"
    \/ v.kind = "string" /\ v.str # <<>>

\* v % 1 !== 0, of a value whose typeof is 'number'.
notWhole(v) == v.kind # "integer"

\* new Array(v) throws a RangeError on a number that is no array length: not
\* whole, negative, or 2^32 and more (beyond the integers modelled here).
arrayLengthThrows(v) ==
    typeof(v) = "number" /\ (v.kind # "integer" \/ v.num < 0)

(***************************************************************************)
(* Shamir.generateShares                                                   *)
(***************************************************************************)
Thrown(error) == [error |-> error, shares |-> <<>>]

\* The errors thrown by the sanity checks of lines 305-333.
ArgumentErrors ==
    {"SecretNotString", "TotalSharesInvalid", "TotalSharesTooMany", "ThresholdInvalid",
     "ThresholdTooMany", "ThresholdOverTotal", "PadLengthInvalid"}

\* padLength = padLength || 128
effectivePadLength(padLength) == IF truthy(padLength) THEN padLength ELSE JsInteger(128)

\* The sanity checks, in the order of the code: "" when none throws. The two
\* array allocations of lines 297-298 come first.
checkArguments(secret, totalShares, requiredShares, padLength) ==
    IF arrayLengthThrows(totalShares) THEN "RangeError"
    ELSE IF typeof(secret) # "string" THEN "SecretNotString"
    ELSE IF typeof(totalShares) # "number" \/ notWhole(totalShares) \/ totalShares.num < 2
    THEN "TotalSharesInvalid"
    ELSE IF totalShares.num > maxShares THEN "TotalSharesTooMany"
    ELSE IF typeof(requiredShares) # "number" \/ notWhole(requiredShares)
            \/ requiredShares.num < 2
    THEN "ThresholdInvalid"
    ELSE IF requiredShares.num > maxShares THEN "ThresholdTooMany"
    ELSE IF requiredShares.num > totalShares.num THEN "ThresholdOverTotal"
    ELSE IF typeof(padLength) # "number" \/ notWhole(padLength)
            \/ padLength.num < 0 \/ padLength.num > 1024
    THEN "PadLengthInvalid"
    ELSE ""

\* '1' + hexadecimalToBinary(secret), split with the padding (lines 337-340).
encodeSecret(secret, padLength) ==
    splitNumStringToIntArray(<<"1">> \o hexadecimalToBinary(secret), padLength)

\* The random source of one call: the draw for coefficient c of chunk i (both
\* from 1) is draw number (i - 1) * (requiredShares - 1) + c of the call.
sourcesOfChunk(randomBytes, i, requiredShares) ==
    Array([c \in 1..(requiredShares - 1) |->
              randomBytes[(((i - 1) * (requiredShares - 1) + (c - 1)) % Len(randomBytes)) + 1]])

\* A faulty shareString that does not pad the id to two digits.
shareStringUnpadded(shareId, y) == shareId \o binaryToHexadecimal(y)

\* The share string of lines 362-366: the id padded to two digits, then the data.
shareString(shareId, y) == padLeft(shareId, 2) \o binaryToHexadecimal(y)

\* Lines 344-369 for checked arguments: the sub-shares of every chunk, the
\* chunks of share j prepended one after the other to y[j], and the id.
buildShares(chunks, totalShares, requiredShares, randomBytes) ==
    LET subShares == Array([i \in 1..Len(chunks) |->
                               calculateRandomizedShares(chunks[i], totalShares,
                                   requiredShares,
                                   sourcesOfChunk(randomBytes, i, requiredShares))])
        x == Array([j \in 1..totalShares |-> toString(subShares[1][j].x, 16)])
        y == Array([j \in 1..totalShares |->
                       join([k \in 1..Len(chunks) |->
                                padLeft(toString(subShares[Len(chunks) + 1 - k][j].y, 2),
                                        fieldBits)],
                            1, Len(chunks))])
        idValid(j) == LET integerShareId == parseInt(x[j], 16)
                      IN  integerShareId # NaN /\ integerShareId >= 1
                          /\ integerShareId <= maxShares
    IN  IF \E j \in 1..totalShares : ~idValid(j) THEN Thrown("ShareIdInvalid")
        ELSE [error |-> "",
              shares |-> Array([j \in 1..totalShares |-> shareString(x[j], y[j])])]

generateShares(secret, totalShares, requiredShares, padLength, randomBytes) ==
    LET pad == effectivePadLength(padLength)
        error == checkArguments(secret, totalShares, requiredShares, pad)
    IN  IF error # "" THEN Thrown(error)
        ELSE IF hexadecimalToBinary(secret.str) = InvalidHex THEN Thrown("InvalidHexCharacter")
        ELSE buildShares(encodeSecret(secret.str, pad.num), totalShares.num,
                         requiredShares.num, randomBytes)

(***************************************************************************)
(* The state.                                                              *)
(***************************************************************************)
VARIABLES
    pc,         \* where the caller is: "idle", "generated", "threw", "parsed",
                \* "derived", "multiplied", "randomized", "evaluated",
                \* "interpolated", "drawing", "testing", "returned"
    args,       \* the arguments of the generateShares call
    generated,  \* what generateShares returned or threw
    shares,     \* the array given to deriveSecret
    derived,    \* what deriveSecret returned or threw
    components, \* the string given to extractShareComponents, and its result
    operands,   \* the two field elements multiplied, or the x and the
                \* coefficients given to calculateFofX, or the x and y given
                \* to lagrange, and the result
    chunk,      \* a call of calculateRandomizedShares, and its result
    draw        \* getRandomBinaryString: the last random byte and `string`

vars == <<pc, args, generated, shares, derived, components, operands, chunk, draw>>

(***************************************************************************)
(* Bounds of the model.                                                    *)
(***************************************************************************)
\* Secrets have at most MaxSecretLen hexadecimal digits.
MaxSecretLen == 2

\* totalShares ranges over 2..MaxTotal.
MaxTotal == 3

\* The digits secrets are made of: a zero, a lower-case and an upper-case digit.
SecretChars == {"0", "a", "F"}

\* All strings over chars of length at most n.
RECURSIVE StringsUpTo(_, _)
StringsUpTo(chars, n) ==
    IF n = 0 THEN {<<>>}
    ELSE LET shorter == StringsUpTo(chars, n - 1)
         IN  shorter \cup {Append(s, c) : s \in shorter, c \in chars}

Secrets == StringsUpTo(SecretChars, MaxSecretLen)

\* What the random source returns while one coefficient is drawn: the bytes
\* of the successive turns, the last one the first that is not 0. The draws of
\* a call are those of its source, in order and again from the first.
ShortSource == << <<0, 141>>, <<255>> >>

LongSource == << <<1>>, <<2>>, <<0, 0, 29>> >>

RandomSources == {ShortSource, LongSource}

\* Explicit padLength values: widths that are and are not multiples of 8.
PadLengths == {JsInteger(1), JsInteger(8), JsInteger(12)}

Call(secret, totalShares, requiredShares, padLength, randomBytes) ==
    [secret |-> secret, totalShares |-> totalShares, requiredShares |-> requiredShares,
     padLength |-> padLength, randomBytes |-> randomBytes]

\* The calls of the split-and-combine model, every argument valid: with an
\* explicit padLength, and without one (128 bits, so 16 chunks).
\* The pairs (totalShares, requiredShares) with 2 <= requiredShares <= totalShares.
Thresholds == {nt \in (2..MaxTotal) \X (2..MaxTotal) : nt[2] <= nt[1]}

ValidCalls ==
    {Call(JsString(s), JsInteger(nt[1]), JsInteger(nt[2]), p, r) :
        s \in Secrets, nt \in Thresholds, p \in PadLengths, r \in RandomSources}
    \cup {Call(JsString(s), JsInteger(nt[1]), JsInteger(nt[2]), JsUndefined, ShortSource) :
        s \in Secrets, nt \in Thresholds}

NoCall ==
    [secret |-> JsUndefined, totalShares |-> JsUndefined, requiredShares |-> JsUndefined,
     padLength |-> JsUndefined, randomBytes |-> <<>>]

NoOutcome == [error |-> "pending", shares |-> <<>>]

NoResult == [error |-> "pending", value |-> <<>>]

NoComponents == [share |-> <<>>, error |-> "pending", id |-> NaN, data |-> <<>>]

NoOperands == [a |-> 0, b |-> 0, product |-> 0]

NoChunk ==
    [secret |-> 0, totalShares |-> 0, requiredShares |-> 0, sources |-> <<>>,
     subShares |-> <<>>]

NoDraw == [byte |-> 0, string |-> <<>>]

\* The sequences of distinct indices in 1..n, of every length 0..n.
RECURSIVE Arrangements(_, _)
Arrangements(n, len) ==
    IF len = 0 THEN {<<>>}
    ELSE LET shorter == Arrangements(n, len - 1)
         IN  shorter \cup {Append(q, k) : q \in {r \in shorter : Len(r) = len - 1},
                                          k \in 1..n}

Picks(n) == {q \in Arrangements(n, n) : \A i, j \in 1..Len(q) : i # j => q[i] # q[j]}

(***************************************************************************)
(* Split, then combine.                                                    *)
(***************************************************************************)
Init ==
    /\ pc = "idle"
    /\ args = NoCall
    /\ generated = NoOutcome
    /\ shares = <<>>
    /\ derived = NoResult
    /\ components = NoComponents
    /\ operands = NoOperands
    /\ chunk = NoChunk
    /\ draw = NoDraw

\* The caller calls generateShares(secret, totalShares, requiredShares, padLength).
GenerateShares(call) ==
    /\ pc = "idle"
    /\ args' = call
    /\ generated' = generateShares(call.secret, call.totalShares, call.requiredShares,
                                   call.padLength, call.randomBytes)
    /\ pc' = IF generated'.error = "" THEN "generated" ELSE "threw"
    /\ UNCHANGED <<shares, derived, components, operands, chunk, draw>>

\* The caller calls deriveSecret on the array `list`.
DeriveSecret(list) ==
    /\ shares' = list
    /\ derived' = deriveSecret(list)
    /\ pc' = "derived"
    /\ UNCHANGED <<args, generated, components, operands, chunk, draw>>

\* The caller splits a secret, with valid arguments.
SplitSecret ==
    /\ pc = "idle"
    /\ \E call \in ValidCalls : GenerateShares(call)

\* The caller combines some of the shares it got, each at most once, in any order.
CombineSome ==
    /\ pc = "generated"
    /\ \E q \in Picks(Len(generated.shares)) :
           DeriveSecret(Array([k \in 1..Len(q) |-> generated.shares[q[k]]]))

Next ==
    \/ SplitSecret
    \/ CombineSome

Spec == Init /\ [][Next]_vars

(***************************************************************************)
(* Properties of split-and-combine.                                        *)
(***************************************************************************)
\* The string with its hexadecimal digits in lower case.
lowerCase(str) ==
    Array([k \in 1..Len(str) |->
              IF str[k] \in DigitChars THEN LowerDigits[DigitValue[str[k]] + 1] ELSE str[k]])

\* deriveSecret has returned from a call on exactly requiredShares of the
\* shares of the split, or on at least as many.
CombinedThreshold == pc = "derived" /\ Len(shares) = args.requiredShares.num

CombinedEnough == pc = "derived" /\ Len(shares) >= args.requiredShares.num

\* C1, as stated: deriveSecret applied to any requiredShares of the shares
\* returned by generateShares returns exactly the original secret string.
C1_RoundTripExact ==
    CombinedThreshold => derived = [error |-> "", value |-> args.secret.str]

\* C1, amended: deriveSecret applied to any requiredShares of the shares
\* returned by generateShares returns the original secret string with its
\* hexadecimal digits in lower case (leading zero digits kept, '' for '').
C1_RoundTrip ==
    CombinedThreshold => derived = [error |-> "", value |-> lowerCase(args.secret.str)]

\* A secret with a leading zero and an upper-case digit has been split in 3
\* with threshold 2 and recombined from two shares.
C1_Witness ==
    /\ CombinedThreshold
    /\ args.secret.str = <<"0", "F">>
    /\ args.totalShares.num = 3
    /\ args.requiredShares.num = 2
    /\ derived.value = <<"0", "f">>

\* The first requiredShares shares of the split, in the order generateShares
\* returned them.
firstShares == SubSeq(generated.shares, 1, args.requiredShares.num)

\* C9, as stated: deriveSecret on any list of at least requiredShares distinct
\* shares of a split, in any order, returns the same value as on a
\* requiredShares-subset, namely the original secret.
C9_AnyNumberAnyOrderExact ==
    CombinedEnough =>
        /\ derived = deriveSecret(firstShares)
        /\ derived = [error |-> "", value |-> args.secret.str]

\* C9, amended: deriveSecret on any list of at least requiredShares distinct
\* shares of a split, in any order, returns the same value as on a
\* requiredShares-subset, namely the original secret with its hexadecimal
\* digits in lower case.
C9_AnyNumberAnyOrder ==
    CombinedEnough =>
        /\ derived = deriveSecret(firstShares)
        /\ derived = [error |-> "", value |-> lowerCase(args.secret.str)]

\* All three shares of a split with threshold 2 have been combined, the last
\* share first.
C9_Witness ==
    /\ CombinedEnough
    /\ args.requiredShares.num = 2
    /\ Len(shares) = 3
    /\ shares = <<generated.shares[3], generated.shares[1], generated.shares[2]>>
    /\ args.secret.str = <<"a", "F">>
    /\ derived.value = <<"a", "f">>

(***************************************************************************)
(* One chunk: calculateRandomizedShares on every secret byte.              *)
(***************************************************************************)
\* What the random source can return while one coefficient is drawn: every
\* byte that is not 0, at once or after bytes that are 0.
CoefficientDraws == {<<c>> : c \in 1..maxShares} \cup {<<0, 7>>, <<0, 0, 255>>}

\* A few of them, for polynomials of higher degree.
SampleDraws == {<<1>>, <<0, 29>>, <<255>>}

\* The draws of one call with threshold t: every coefficient of a line, some
\* coefficients of a polynomial of higher degree.
ChunkSources(t) ==
    IF t = 2 THEN {<<d>> : d \in CoefficientDraws} ELSE [1..(t - 1) -> SampleDraws]

\* calculateRandomizedShares(secret, totalShares, requiredShares) is called.
RandomizeShares(secret, totalShares, requiredShares, sources) ==
    /\ chunk' = [secret |-> secret, totalShares |-> totalShares,
                 requiredShares |-> requiredShares, sources |-> sources,
                 subShares |-> calculateRandomizedShares(secret, totalShares,
                                                         requiredShares, sources)]
    /\ pc' = "randomized"
    /\ UNCHANGED <<args, generated, shares, derived, components, operands, draw>>

RandomizeChunk ==
    /\ pc = "idle"
    /\ \E secret \in 0..maxShares, nt \in Thresholds :
           \E sources \in ChunkSources(nt[2]) :
               RandomizeShares(secret, nt[1], nt[2], sources)

\* The longest coefficient list given to calculateFofX on its own, and the
\* values of its coefficients: 0 among them, at any place.
MaxCoefficients == 3

CoefficientValues == {0, 29, 255}

CoefficientLists == UNION {[1..len -> CoefficientValues] : len \in 0..MaxCoefficients}

\* calculateFofX(x, coefficients) is called.
CalculateFofX(x, coefficients) ==
    /\ operands' = [x |-> x, coefficients |-> coefficients,
                    fx |-> calculateFofX(x, coefficients)]
    /\ pc' = "evaluated"
    /\ UNCHANGED <<args, generated, shares, derived, components, chunk, draw>>

EvaluateAny ==
    /\ pc = "idle"
    /\ \E x \in 1..maxShares, coefficients \in CoefficientLists :
           CalculateFofX(x, Array(coefficients))

NextChunk ==
    \/ RandomizeChunk
    \/ EvaluateAny

SpecChunk == Init /\ [][NextChunk]_vars

\* The y of share id when calculateRandomizedShares is called on `secret` and
\* the random source returns the byte c for the coefficient of a line.
lineShare(secret, id, c) ==
    calculateRandomizedShares(secret, id, 2, << <<c>> >>)[id].y

\* C2, as stated, for threshold 2: whatever y a share shows, every secret
\* byte is consistent with it, that is, some draw of the coefficient gives
\* that y at that id for that secret.
C2_OneShareRevealsNothing ==
    (pc = "randomized" /\ chunk.requiredShares = 2) =>
        \A id \in 1..chunk.totalShares :
            \A secret \in 0..maxShares :
                \E c \in 1..maxShares :
                    lineShare(secret, id, c) = chunk.subShares[id].y

(***************************************************************************)
(* generateShares alone, on arguments of every kind.                       *)
(***************************************************************************)
\* Values of secret: strings of hexadecimal digits, a string with another
\* character, and values that are no string.
SecretValues ==
    {JsString(<<>>), JsString(<<"a">>), JsString(<<"g">>), JsUndefined, JsNull,
     JsInteger(10)}

\* Values of totalShares and requiredShares: the integers around the small
\* limits, and values that are no integer.
CountValues ==
    {JsInteger(n) : n \in (-1)..(MaxTotal + 1)}
    \cup {JsFraction(2), JsNaN, JsUndefined, JsNull, JsString(<<"2">>)}

\* Values of padLength: not given, the integers around the limits 0 and 1024,
\* and values that are no integer.
PadValues ==
    {JsUndefined, JsNull, JsNaN, JsString(<<>>), JsString(<<"8">>), JsFraction(8),
     JsInteger(-1), JsInteger(0), JsInteger(1), JsInteger(8), JsInteger(12),
     JsInteger(1024), JsInteger(1025)}

\* Calls on arguments of every kind.
ArgumentCalls ==
    {Call(s, n, t, p, ShortSource) :
        s \in SecretValues, n \in CountValues, t \in CountValues, p \in PadValues}

\* Calls on every secret, with padLength not given, 0, and small widths.
LengthCalls ==
    {Call(JsString(s), JsInteger(nt[1]), JsInteger(nt[2]), p, ShortSource) :
        s \in Secrets, nt \in Thresholds,
        p \in {JsUndefined, JsInteger(0)} \cup PadLengths}

\* Calls around the limit of 255 shares, and around 16 shares, where the id
\* takes a second digit.
BoundaryCounts ==
    {<<15, 2>>, <<16, 2>>, <<17, 17>>, <<255, 2>>, <<255, 255>>, <<255, 256>>,
     <<256, 2>>, <<256, 256>>, <<255, 1>>}

BoundaryCalls ==
    {Call(JsString(s), JsInteger(nt[1]), JsInteger(nt[2]), JsInteger(8), LongSource) :
        s \in {<<>>, <<"a", "F">>}, nt \in BoundaryCounts}

SplitCalls == ArgumentCalls \cup LengthCalls \cup BoundaryCalls

\* The caller calls generateShares on arguments of any kind.
SplitAny ==
    /\ pc = "idle"
    /\ \E call \in SplitCalls : GenerateShares(call)

NextSplit == SplitAny

SpecSplit == Init /\ [][NextSplit]_vars

(***************************************************************************)
(* Properties of generateShares.                                           *)
(***************************************************************************)
Returned == pc \in {"generated", "threw"}

IsInteger(v) == v.kind = "integer"

\* The arguments the specification accepts: a string, integers with
\* 2 <= requiredShares <= totalShares <= 255, and a padLength that is not
\* given or an integer in [0, 1024].
ArgumentsValid(call) ==
    /\ call.secret.kind = "string"
    /\ IsInteger(call.totalShares) /\ IsInteger(call.requiredShares)
    /\ 2 <= call.requiredShares.num
    /\ call.requiredShares.num <= call.totalShares.num
    /\ call.totalShares.num <= 255
    /\ \/ call.padLength.kind = "undefined"
       \/ IsInteger(call.padLength) /\ call.padLength.num \in 0..1024

\* C3, as stated: generateShares fails, returning no shares, whenever an
\* argument is invalid (any error is counted as this failure), and does not
\* fail with an argument error when all arguments are valid.
C3_ArgumentValidation ==
    Returned =>
        /\ ~ArgumentsValid(args) => (generated.error # "" /\ generated.shares = <<>>)
        /\ ArgumentsValid(args) => generated.error \notin ArgumentErrors \cup {"RangeError"}

\* The id k written as exactly two hexadecimal digits.
idDigits(k) == <<LowerDigits[(k \div 16) + 1], LowerDigits[(k % 16) + 1]>>

\* C6: a successful generateShares returns exactly totalShares strings, the
\* k-th beginning with k as two hexadecimal digits, all of the same length,
\* and each accepted by extractShareComponents with id k and the rest of the
\* string as data.
C6_ShareIdentity ==
    pc = "generated" =>
        /\ Len(generated.shares) = args.totalShares.num
        /\ \A k \in 1..Len(generated.shares) :
              LET share == generated.shares[k]
              IN  /\ Len(share) = Len(generated.shares[1])
                  /\ Len(share) >= 3
                  /\ SubSeq(share, 1, 2) = idDigits(k)
                  /\ extractShareComponents(share)
                       = [error |-> "", id |-> k, data |-> SubSeq(share, 3, Len(share))]

\* 255 shares have been returned, the 16th with id 10 and the last with id ff.
C6_Witness ==
    /\ pc = "generated"
    /\ args.totalShares.num = 255
    /\ Len(generated.shares) = 255
    /\ SubSeq(generated.shares[16], 1, 2) = <<"1", "0">>
    /\ SubSeq(generated.shares[255], 1, 2) = <<"f", "f">>

\* The length of the encoded bit string for a secret of k digits and the
\* padLength p: the smallest multiple of p that is >= 4k + 1, and 4k + 1 when
\* p is 0 or 1; 128 stands for a padLength that is not given.
encodedLength(k, p) ==
    IF p \in {0, 1} THEN 4 * k + 1 ELSE p * (((4 * k + 1) + p - 1) \div p)

statedPadLength(padLength) ==
    IF padLength.kind = "undefined" THEN 128 ELSE padLength.num

\* C10, as stated: for a secret of k digits and an accepted padLength p, each
\* returned share carries 2 * ceil(L / 8) hexadecimal digits after the id,
\* where L is the encoded length for p (no padding when p is 0 or 1, 128 only
\* when padLength is not given).
C10_PayloadSize ==
    (pc = "generated" /\ ArgumentsValid(args)) =>
        \A j \in 1..Len(generated.shares) :
            Len(generated.shares[j]) - 2
              = 2 * ((encodedLength(Len(args.secret.str), statedPadLength(args.padLength))
                      + 7) \div 8)

(***************************************************************************)
(* extractShareComponents and deriveSecret on strings of any kind.         *)
(***************************************************************************)
\* Strings given to extractShareComponents have at most MaxShareLen characters.
MaxShareLen == 4

\* Lists given to deriveSecret have at most MaxList shares.
MaxList == 3

\* Digits of both cases, a letter that is no digit, and a line break.
ShareChars == {"0", "1", "a", "F", "g", "\n"}

ShareStrings == StringsUpTo(ShareChars, MaxShareLen)

\* The shares of the lists: the ids 1, 2 and 10 (in both cases), each with
\* data of one and of two bytes, and strings that are no share.
ListShares ==
    {id \o data : id \in {<<"0", "1">>, <<"0", "2">>, <<"0", "a">>, <<"0", "A">>},
                  data \in {<<"1", "e">>, <<"e", "1">>, <<"0", "2", "F", "1">>}}
    \cup {<<"0", "0", "e", "1">>, <<"0", "1">>, <<"0", "1", "g", "1">>}

RECURSIVE ListsUpTo(_, _)
ListsUpTo(elements, n) ==
    IF n = 0 THEN {<<>>}
    ELSE LET shorter == ListsUpTo(elements, n - 1)
         IN  shorter \cup {Append(l, e) : l \in {m \in shorter : Len(m) = n - 1},
                                          e \in elements}

ShareLists == ListsUpTo(ListShares, MaxList)

\* extractShareComponents(share) is called.
ExtractShareComponents(share) ==
    /\ components' = [share |-> share,
                      error |-> extractShareComponents(share).error,
                      id |-> extractShareComponents(share).id,
                      data |-> extractShareComponents(share).data]
    /\ pc' = "parsed"
    /\ UNCHANGED <<args, generated, shares, derived, operands, chunk, draw>>

ParseAny ==
    /\ pc = "idle"
    /\ \E share \in ShareStrings : ExtractShareComponents(share)

\* deriveSecret is called on a list of strings of any kind.
DeriveAny ==
    /\ pc = "idle"
    /\ \E list \in ShareLists : DeriveSecret(list)

NextDerive ==
    \/ ParseAny
    \/ DeriveAny

SpecDerive == Init /\ [][NextDerive]_vars

(***************************************************************************)
(* Properties of extractShareComponents and deriveSecret.                  *)
(***************************************************************************)
\* The value of a hexadecimal digit, and of a string of two.
hexDigit(c) ==
    CASE c \in {"0", "1", "2", "3", "4", "5", "6", "7", "8", "9"} ->
             CHOOSE v \in 0..9 : LowerDigits[v + 1] = c
      [] c \in {"a", "A"} -> 10
      [] c \in {"b", "B"} -> 11
      [] c \in {"c", "C"} -> 12
      [] c \in {"d", "D"} -> 13
      [] c \in {"e", "E"} -> 14
      [] c \in {"f", "F"} -> 15
      [] OTHER -> NaN

statedId(share) == 16 * hexDigit(share[1]) + hexDigit(share[2])

\* The strings the specification accepts as shares: hexadecimal digits only,
\* at least 3 of them, the first two an id in [1, 255].
WellFormed(share) ==
    /\ Len(share) >= 3
    /\ \A k \in 1..Len(share) : hexDigit(share[k]) # NaN
    /\ statedId(share) \in 1..255

\* The list without every share that is well formed and has the id of an
\* earlier well-formed share.
RECURSIVE withoutDuplicates(_)
withoutDuplicates(list) ==
    IF list = <<>> THEN <<>>
    ELSE LET front == SubSeq(list, 1, Len(list) - 1)
             last == list[Len(list)]
         IN  IF /\ WellFormed(last)
                /\ \E k \in 1..Len(front) :
                      WellFormed(front[k]) /\ statedId(front[k]) = statedId(last)
             THEN withoutDuplicates(front)
             ELSE Append(withoutDuplicates(front), last)

\* C4: deriveSecret on a list returns (or throws) what it does on the list
\* without the later shares whose id was already seen: the first occurrence
\* wins, whatever data the later ones carry, and duplicates never make it fail.
C4_FirstOccurrenceWins ==
    pc = "derived" => derived = deriveSecret(withoutDuplicates(shares))

\* deriveSecret has returned a secret from a list where the id 10 comes
\* twice, in different cases and with different data, around another share.
C4_Witness ==
    /\ pc = "derived"
    /\ shares = << <<"0", "a", "1", "e">>, <<"0", "1", "e", "1">>, <<"0", "A", "e", "1">> >>
    /\ withoutDuplicates(shares) = << <<"0", "a", "1", "e">>, <<"0", "1", "e", "1">> >>
    /\ derived.error = ""

\* C5: extractShareComponents succeeds exactly on the well-formed strings,
\* returning the id and the remaining digits as data, and throws on every
\* other string; deriveSecret throws, returning no secret, when one of its
\* shares does not parse.
C5_ShareParsing ==
    /\ pc = "parsed" =>
          IF WellFormed(components.share)
          THEN /\ components.error = ""
               /\ components.id = statedId(components.share)
               /\ components.data = SubSeq(components.share, 3, Len(components.share))
          ELSE components.error \in {"InvalidShareId", "InvalidShareData"}
    /\ pc = "derived" =>
          ((\E k \in 1..Len(shares) : ~WellFormed(shares[k]))
              => (derived.error \in {"InvalidShareId", "InvalidShareData"}
                  /\ derived.value = <<>>))

\* The share FF1 has been parsed as id 255 with data 1.
C5_Witness ==
    /\ pc = "parsed"
    /\ components.share = <<"F", "F", "1">>
    /\ WellFormed(components.share)
    /\ components.error = ""
    /\ components.id = 255
    /\ components.data = <<"1">>

(***************************************************************************)
(* The field: products by the tables, as calculateFofX takes them.         *)
(***************************************************************************)
\* calculateFofX(a, [0, b]) is a times b: the loop sets fx to b, then to the
\* product of a and fx, xored with 0.
Multiply(a, b) ==
    /\ operands' = [a |-> a, b |-> b, product |-> calculateFofX(a, <<0, b>>)]
    /\ pc' = "multiplied"
    /\ UNCHANGED <<args, generated, shares, derived, components, chunk, draw>>

MultiplyAny ==
    /\ pc = "idle"
    /\ \E a \in 0..maxShares, b \in 0..maxShares : Multiply(a, b)

NextField == MultiplyAny

SpecField == Init /\ [][NextField]_vars

(***************************************************************************)
(* Properties of the field.                                                *)
(***************************************************************************)
\* The product as the specification gives it: 0 if a = 0 or b = 0, otherwise
\* the entry of the exponents at the sum of the logarithms mod 255.
mul(a, b) ==
    IF a = 0 \/ b = 0 THEN 0
    ELSE calculatedExponents[(calculatedLogarithms[a] + calculatedLogarithms[b]) % 255]

\* The xor of two polynomials over GF(2) of any degree, as integers.
RECURSIVE polyXor(_, _)
polyXor(p, q) ==
    IF p = 0 THEN q
    ELSE IF q = 0 THEN p
    ELSE ((p + q) % 2) + 2 * polyXor(p \div 2, q \div 2)

\* The schoolbook product of two polynomials: the xor of p * X^k over the
\* terms X^k of q.
RECURSIVE polyTimes(_, _)
polyTimes(p, q) ==
    IF q = 0 THEN 0
    ELSE polyXor(IF q % 2 = 1 THEN p ELSE 0, 2 * polyTimes(p, q \div 2))

\* The remainder of p modulo 0x11D = X^8 + X^4 + X^3 + X^2 + 1, for p of
\* degree at most `degree`.
RECURSIVE polyMod(_, _)
polyMod(p, degree) ==
    IF degree < 8 THEN p
    ELSE polyMod(IF (p \div (2 ^ degree)) % 2 = 1
                 THEN polyXor(p, 285 * (2 ^ (degree - 8)))
                 ELSE p,
                 degree - 1)

schoolbook(a, b) == polyMod(polyTimes(a, b), 14)

\* C7: for all bytes a and b, the product by the tables is the schoolbook
\* product modulo 0x11D; it is commutative and distributes over xor: a times
\* (b xor c) is (a times b) xor (a times c) for all bytes c (those below b are
\* covered where the second operand is c, the statement being the same with
\* b and c exchanged).
C7_FieldClosure ==
    pc = "multiplied" =>
        LET a == operands.a
            b == operands.b
            ab == mul(a, b)
        IN  /\ operands.product = ab
            /\ ab = schoolbook(a, b)
            /\ ab = mul(b, a)
            /\ \A c \in b..255 : mul(a, BitXor(b, c)) = BitXor(ab, mul(a, c))

\* 0x80 times 2 has been taken: the product 0x100 is reduced to 0x1D.
C7_Witness ==
    /\ pc = "multiplied"
    /\ operands.a = 128
    /\ operands.b = 2
    /\ operands.product = 29

(***************************************************************************)
(* Properties of the share generator.                                      *)
(***************************************************************************)
\* a times X modulo 0x11D, for a byte a: a shifted by one place, and X^8
\* replaced by X^4 + X^3 + X^2 + 1 = 0x1D.
timesX(a) == IF 2 * a >= 256 THEN BitXor(2 * a - 256, 29) ELSE 2 * a

\* The product of two bytes modulo 0x11D, by shift and add over the bits of b:
\* a * b = a * (b mod 2) xor (a * X) * (b div 2).
RECURSIVE product(_, _)
product(a, b) ==
    IF b = 0 THEN 0
    ELSE BitXor(IF b % 2 = 1 THEN a ELSE 0, product(timesX(a), b \div 2))

\* x to the power k >= 1.
RECURSIVE power(_, _)
power(x, k) == IF k = 1 THEN x ELSE product(power(x, k - 1), x)

\* The xor, over the places i from `from` >= 2 on, of coefficients[i] times x
\* to the power i - 1.
RECURSIVE higherTerms(_, _, _)
higherTerms(x, coefficients, from) ==
    IF from > Len(coefficients) THEN 0
    ELSE BitXor(product(coefficients[from], power(x, from - 1)),
                higherTerms(x, coefficients, from + 1))

\* The reference evaluation of the polynomial at x: the constant term xor the
\* terms of the higher powers; 0 for no coefficient at all.
evaluate(x, coefficients) ==
    IF coefficients = <<>> THEN 0
    ELSE BitXor(coefficients[1], higherTerms(x, coefficients, 2))

\* The first byte of a random source that is not 0.
firstNonZero(source) == source[CHOOSE k \in 1..Len(source) :
                                  /\ source[k] # 0
                                  /\ \A before \in 1..(k - 1) : source[before] = 0]

\* C11: calculateRandomizedShares(s, n, t) returns exactly n pairs with
\* x = 1..n in order; its coefficients are s and then, for c1..c(t-1), the
\* first byte of each draw that is not 0, so that each lies in 1..255; each y
\* is the reference evaluation s xor c1*x xor ... xor c(t-1)*x^(t-1) with
\* products modulo 0x11D. And calculateFofX agrees with the reference
\* evaluation for every x in 1..255 on coefficient lists with 0 at any place,
\* the empty list included.
C11_ShareGenerator ==
    /\ pc = "randomized" =>
           LET polynomial == <<chunk.secret>>
                                 \o [i \in 1..(chunk.requiredShares - 1) |->
                                        firstNonZero(chunk.sources[i])]
           IN  /\ drawCoefficients(chunk.secret, chunk.requiredShares, chunk.sources)
                      = polynomial
               /\ \A i \in 2..chunk.requiredShares : polynomial[i] \in 1..255
               /\ Len(chunk.subShares) = chunk.totalShares
               /\ \A i \in 1..chunk.totalShares :
                      /\ chunk.subShares[i].x = i
                      /\ chunk.subShares[i].y = evaluate(i, polynomial)
    /\ pc = "evaluated" =>
           operands.fx = evaluate(operands.x, operands.coefficients)

\* Three shares of the byte 77 on a polynomial of degree 2 whose two drawn
\* coefficients are both 29, each drawn at the second try: at x = 1 the
\* accumulator of calculateFofX is 29 * 1 xor 29 = 0 before the last turn, and
\* the share is the secret byte itself.
C11_Witness ==
    /\ pc = "randomized"
    /\ chunk.secret = 77
    /\ chunk.totalShares = 3
    /\ chunk.requiredShares = 3
    /\ chunk.sources = << <<0, 29>>, <<0, 29>> >>
    /\ chunk.subShares[1] = [x |-> 1, y |-> 77]
    /\ chunk.subShares[2].y = evaluate(2, <<77, 29, 29>>)

(***************************************************************************)
(* One share short: requiredShares - 1 shares of a split given to          *)
(* deriveSecret, and as many points of one chunk given to lagrange.        *)
(***************************************************************************)
\* The calls that leave padLength out: 128 bits, so 16 chunks.
DefaultCalls == {call \in ValidCalls : call.padLength = JsUndefined}

\* The sequences of k distinct indices in 1..n.
ShortPicks(n, k) == {q \in Picks(n) : Len(q) = k}

\* The draws of one call with threshold t: a few for every coefficient.
SampleSources(t) == [1..(t - 1) -> SampleDraws]

\* The caller splits a secret and leaves padLength out.
SplitDefault ==
    /\ pc = "idle"
    /\ \E call \in DefaultCalls : GenerateShares(call)

\* The caller combines requiredShares - 1 of the shares it got, in any order.
CombineShort ==
    /\ pc = "generated"
    /\ \E q \in ShortPicks(Len(generated.shares), args.requiredShares.num - 1) :
           DeriveSecret(Array([k \in 1..Len(q) |-> generated.shares[q[k]]]))

\* calculateRandomizedShares is called on any secret byte.
RandomizeSample ==
    /\ pc = "idle"
    /\ \E secret \in 0..maxShares, nt \in Thresholds :
           \E sources \in SampleSources(nt[2]) :
               RandomizeShares(secret, nt[1], nt[2], Array(sources))

\* lagrange(x, y) is called.
Lagrange(x, y) ==
    /\ operands' = [x |-> x, y |-> y, sum |-> lagrange(x, y)]
    /\ pc' = "interpolated"
    /\ UNCHANGED <<args, generated, shares, derived, components, chunk, draw>>

\* lagrange is called on requiredShares - 1 of the points of the chunk, in any
\* order, as deriveSecret calls it on the column of a chunk.
InterpolateShort ==
    /\ pc = "randomized"
    /\ \E q \in ShortPicks(chunk.totalShares, chunk.requiredShares - 1) :
           Lagrange(Array([k \in 1..Len(q) |-> chunk.subShares[q[k]].x]),
                    Array([k \in 1..Len(q) |-> chunk.subShares[q[k]].y]))

NextShort ==
    \/ SplitDefault
    \/ CombineShort
    \/ RandomizeSample
    \/ InterpolateShort

SpecShort == Init /\ [][NextShort]_vars

(***************************************************************************)
(* Properties of one share short.                                          *)
(***************************************************************************)
\* The bytes deriveSecret recovers from the array `list`, one for each chunk
\* position, the lowest first.
recoveredBytes(list) ==
    LET collected == collectShares(list, 1, [x |-> <<>>, y |-> <<>>])
    IN  [k \in 1..Len(collected.y) |-> lagrange(collected.x, collected.y[k])]

\* C12: for every secret byte, lagrange on requiredShares - 1 distinct points
\* of its chunk gives a byte that is not the secret byte; deriveSecret on
\* requiredShares - 1 distinct shares of a split with the default padLength
\* raises no error, recovers at each of the chunk positions a byte that is not
\* the byte of the encoded secret there, and returns a string that is not the
\* original secret, nor the original secret in lower case.
C12_OneShareShort ==
    /\ pc = "interpolated" =>
           /\ operands.sum \in 0..255
           /\ operands.sum # chunk.secret
    /\ pc = "derived" =>
           LET chunks == encodeSecret(args.secret.str,
                                      effectivePadLength(args.padLength).num)
               recovered == recoveredBytes(shares) \o <<>>
           IN  /\ Len(shares) = args.requiredShares.num - 1
               /\ derived.error = ""
               /\ Len(recovered) = Len(chunks)
               /\ \A k \in 1..Len(chunks) :
                      recovered[k] \in 0..255 /\ recovered[k] # chunks[k]
               /\ derived.value # args.secret.str
               /\ derived.value # lowerCase(args.secret.str)

\* The secret 0F has been split in 3 with threshold 3 and the default
\* padLength, and deriveSecret has returned from the third and the first share:
\* 31 hexadecimal digits that begin with c1.
C12_Witness ==
    /\ pc = "derived"
    /\ args.secret.str = <<"0", "F">>
    /\ args.padLength = JsUndefined
    /\ args.totalShares.num = 3
    /\ args.requiredShares.num = 3
    /\ shares = <<generated.shares[3], generated.shares[1]>>
    /\ derived.error = ""
    /\ Len(derived.value) = 31
    /\ SubSeq(derived.value, 1, 2) = <<"c", "1">>

(***************************************************************************)
(* getRandomBinaryString, turn by turn. The random source may return any   *)
(* byte on any turn. The code runs on its own thread of control, so a turn *)
(* that can be taken is taken: weak fairness of the steps.                 *)
(***************************************************************************)
\* getRandomBinaryString(fieldBits) is called: string = ''.
CallGetRandomBinaryString ==
    /\ pc = "idle"
    /\ draw' = NoDraw
    /\ pc' = "drawing"
    /\ UNCHANGED <<args, generated, shares, derived, components, operands, chunk>>

\* while (string === ''): the random source returns a byte, and string gets
\* the last bits of its digits (lines 252-270).
ReadRandomBytes ==
    /\ pc = "drawing"
    /\ \E byte \in 0..maxShares :
           draw' = [byte |-> byte, string |-> randomString(byte, fieldBits)]
    /\ pc' = "testing"
    /\ UNCHANGED <<args, generated, shares, derived, components, operands, chunk>>

\* The string is erased when it is all 0, and the loop goes on; otherwise it
\* is returned (lines 272-279).
TestString ==
    /\ pc = "testing"
    /\ draw' = [draw EXCEPT !.string = eraseZeros(draw.string)]
    /\ pc' = IF eraseZeros(draw.string) = <<>> THEN "drawing" ELSE "returned"
    /\ UNCHANGED <<args, generated, shares, derived, components, operands, chunk>>

NextDraw ==
    \/ CallGetRandomBinaryString
    \/ ReadRandomBytes
    \/ TestString

SpecDraw == Init /\ [][NextDraw]_vars /\ WF_vars(NextDraw)

\* C8, as stated: the draw of a coefficient terminates whatever the random
\* source returns: a call of getRandomBinaryString ends, by a return or by an
\* error once the retries are used up.
C8_DrawTerminates == (pc = "drawing") ~> (pc \in {"returned", "threw"})
====
